---- MODULE Spec2Model ----
(***************************************************************************)
(* The vote listener of poly-vote-listener: a subscriber that turns the    *)
(* ledger's Voted events into Vote rows (processVoteEvent) and a periodic  *)
(* reconciliation pass that compares the ledger tallies with the store     *)
(* (syncVoteCounts).                                                       *)
(*                                                                         *)
(* The repository holds two complete programs:                             *)
(*   src/listener.js (lines 161-527)  looks the voter up by the address as *)
(*       delivered, picks the candidate with the most ledger votes, and    *)
(*       its reconciliation only reports mismatches   ("report-only");     *)
(*   src/unnamed/part_001             looks the voter up by the lowercase  *)
(*       address, picks the first candidate of the position, and its       *)
(*       reconciliation creates Vote rows for eligible students            *)
(*       ("synthetic-attribution").                                        *)
(* The variable policy says which of the two programs is running.          *)
(*                                                                         *)
(* Every await of the source is a suspension point: an action below is the *)
(* code from one await to the next, with the awaited store or ledger call  *)
(* at its head.  A call either completes or throws (ok = FALSE).           *)
(***************************************************************************)
EXTENDS Integers, Sequences, FiniteSets, TLC

NULL == "null"

(* ------------------------------ bounds -------------------------------- *)

\* Invocations of the Voted callback (deliveries and redeliveries).
MaxHandlers == 2

\* Invocations of syncVoteCounts.
MaxPasses == 2

\* Votes cast on the ledger.
MaxChainVotes == 2

\* Invocations of syncVoteCounts while events are being ingested.
MaxServicePasses == 1

\* Store and ledger calls that fail (throw for a reason of their own: a lost
\* connection, a timeout, a reverted call).
MaxFaults == 1

\* Outages of the ledger endpoint (silent, or reported as a provider error).
MaxOutages == 1

\* Pending retries of setupMainContractListener (setTimeout, 60 s).
MaxRetries == 2

\* How many times the interval timer of syncVoteCounts fires in SpecPeriodic.
MaxTicks == 2

VARIABLES
  policy,      \* which program runs: "report-only" | "synthetic-attribution"
  elections,   \* store: Election rows
  positions,   \* store: Position rows (candidates in stored order)
  candidates,  \* store: Candidate rows
  students,    \* store: Student rows
  votes,       \* store: Vote rows
  nextVoteId,  \* store: the id the next Vote row gets (uuid)
  chain,       \* ledger: voteCount of every on-chain candidate
  emitted,     \* ledger: the Voted events emitted so far, in order
  delivered,   \* subscription: how many of them reached the Voted callback
  handlers,    \* the invocations of the Voted callback
  passes,      \* the invocations of syncVoteCounts
  faults,      \* how many store and ledger calls have failed so far
  log,         \* console output that the claims speak about
  endpoint,    \* ledger: whether the RPC endpoint can be reached
  outages,     \* ledger: how many outages the endpoint has had
  listeners,   \* subscription: contracts whose Voted callback gets events
  timers,      \* subscription: pending setTimeout retries and reconnects
  supervisor,  \* main: where it stands, and the intervals it has set
  echoed,      \* subscription: how many events a second listener handed on
  shutdown     \* SIGINT callback: "running" | "disconnecting" | "exited"

vars == <<policy, elections, positions, candidates, students, votes,
          nextVoteId, chain, emitted, delivered, handlers, passes, faults, log,
          endpoint, outages, listeners, timers, supervisor, echoed, shutdown>>

lifecycle == <<endpoint, outages, listeners, timers, supervisor, echoed,
               shutdown>>

storeTables == <<elections, positions, candidates, students>>

(* ------------------------- wallet addresses --------------------------- *)

\* An address is a sequence of characters; only letters have a case.
ToLowerChar(ch) ==
  CASE ch = "A" -> "a"
    [] ch = "B" -> "b"
    [] ch = "C" -> "c"
    [] ch = "D" -> "d"
    [] OTHER -> ch

\* String.prototype.toLowerCase
ToLowerCase(addr) == [k \in 1..Len(addr) |-> ToLowerChar(addr[k])]

\* The addresses that Voted events carry: both renderings of the wallets of
\* s1 and s2, and an address no student owns.
Addresses ==
  { <<"a", "b">>, <<"A", "b">>, <<"c", "D">>, <<"c", "d">>, <<"d", "d">> }

(* ------------------------------ store --------------------------------- *)

\* Election rows: e1 and e3 are live and bound to the contract, e2 is a
\* draft.
ElectionRows ==
  { [id |-> "e1", liveStatus |-> "LIVE", smartContractId |-> "k1"],
    [id |-> "e2", liveStatus |-> "NOT_LIVE", smartContractId |-> NULL],
    [id |-> "e3", liveStatus |-> "LIVE", smartContractId |-> "k3"] }

\* Position rows with their candidates in the order the store returns them.
PositionRows ==
  { [id |-> "p1", electionId |-> "e1", candidates |-> <<"c1", "c2">>],
    [id |-> "p2", electionId |-> "e1", candidates |-> <<"c3">>],
    [id |-> "p4", electionId |-> "e3", candidates |-> <<"c4">>] }

CandidateRows ==
  { [id |-> "c1", positionId |-> "p1"],
    [id |-> "c2", positionId |-> "p1"],
    [id |-> "c3", positionId |-> "p2"],
    [id |-> "c4", positionId |-> "p4"] }

\* wallet String? : the value of a Student without a wallet.
NoWallet == << >>

\* Student rows: the wallet of s1 is stored in lowercase, the wallet of s2
\* in mixed case, s3 has no wallet and is not eligible.
StudentRows ==
  { [id |-> "s1", eligible |-> TRUE, wallet |-> <<"a", "b">>],
    [id |-> "s2", eligible |-> TRUE, wallet |-> <<"c", "D">>],
    [id |-> "s3", eligible |-> FALSE, wallet |-> NoWallet] }

CandidateIds == {c.id : c \in CandidateRows}
StudentIds == {s.id : s \in StudentRows}

\* A findUnique that finds a row for every id.
ElectionFindUniqueAny(id) == id

\* prisma.election.findUnique({ where: { id } }): the id of the row, or NULL.
ElectionFindUnique(id) ==
  IF \E e \in elections : e.id = id THEN id ELSE NULL

\* A lookup that falls back to some Student when no wallet matches.
StudentFindFirstOrAny(wallet) ==
  IF \E s \in students : s.wallet # NoWallet /\ s.wallet = wallet
    THEN (CHOOSE s \in students : s.wallet # NoWallet /\ s.wallet = wallet).id
    ELSE "s1"

\* prisma.student.findFirst({ where: { wallet } }): the id of the Student
\* whose stored wallet equals the given string, or NULL.  The comparison is
\* the store's string equality; a Student without a wallet never matches.
StudentFindFirst(wallet) ==
  IF \E s \in students : s.wallet # NoWallet /\ s.wallet = wallet
    THEN (CHOOSE s \in students : s.wallet # NoWallet /\ s.wallet = wallet).id
    ELSE NULL

\* prisma.position.findFirst({ where: { id, electionId }, include candidates }):
\* the id of the Position, or NULL.
PositionFindFirst(id, electionId) ==
  IF \E p \in positions : p.id = id /\ p.electionId = electionId
    THEN id
    ELSE NULL

\* position.candidates of an included Position row.
PositionCandidates(id) ==
  (CHOOSE p \in positions : p.id = id).candidates

VotesOf(vs, studentId, candidateId) ==
  {v \in vs : v.studentId = studentId /\ v.candidateId = candidateId}

\* prisma.vote.findFirst({ where: { studentId, candidateId } }): the rows
\* the query matches; existingVote is one of them, and is null when there
\* is none.
VoteFindFirst(vs, studentId, candidateId) ==
  VotesOf(vs, studentId, candidateId)

\* A count that does not look at the rows of the candidate.
VoteCountStale(vs, candidateId) == 0

\* prisma.vote.count({ where: { candidateId } })
VoteCount(vs, candidateId) ==
  Cardinality({v \in vs : v.candidateId = candidateId})

\* The relations of a Vote row: both ends must exist.
ForeignKeysHold(studentId, candidateId) ==
  /\ \E s \in students : s.id = studentId
  /\ \E c \in candidates : c.id = candidateId

\* Vote @@unique([studentId, candidateId])
UniqueViolated(vs, studentId, candidateId) ==
  VotesOf(vs, studentId, candidateId) # {}

\* An insert into a table without the @@unique constraint.
VoteCreateNoUnique(vs, id, studentId, candidateId) ==
  IF ForeignKeysHold(studentId, candidateId)
    THEN vs \cup {[id |-> id, studentId |-> studentId,
                   candidateId |-> candidateId]}
    ELSE vs

\* An insert that the store acknowledges and loses.
VoteCreateLost(vs, id, studentId, candidateId) == vs

\* An insert that replaces the row of the pair (an upsert).
VoteCreateUpsert(vs, id, studentId, candidateId) ==
  IF ForeignKeysHold(studentId, candidateId)
    THEN (vs \ VotesOf(vs, studentId, candidateId))
         \cup {[id |-> id, studentId |-> studentId,
                 candidateId |-> candidateId]}
    ELSE vs

\* prisma.vote.create: the new table, or the table unchanged when the store
\* rejects the insert (the call then throws).
VoteCreate(vs, id, studentId, candidateId) ==
  IF ForeignKeysHold(studentId, candidateId)
     /\ ~UniqueViolated(vs, studentId, candidateId)
    THEN vs \cup {[id |-> id, studentId |-> studentId,
                   candidateId |-> candidateId]}
    ELSE vs

(* ------------------------------ ledger -------------------------------- *)

\* contract.getElection(id).positions: the on-chain positions of an
\* election, each with its candidates in on-chain order.
ChainPositions(electionId) ==
  IF electionId = "e1"
    THEN << [id |-> "p1", candidates |-> <<"c1", "c2">>],
            [id |-> "p2", candidates |-> <<"c3">>] >>
    ELSE IF electionId = "e3"
      THEN << [id |-> "p4", candidates |-> <<"c4">>] >>
      ELSE << >>

ChainCandidateIds == {"c1", "c2", "c3", "c4"}

\* A getElection result that has not been fetched.
NoSnap == [c \in ChainCandidateIds |-> 0]

\* What one vote transaction can be: the election, the position ids of its
\* Voted event and the candidates whose voteCount it increments.  e9 is an
\* election of the contract that the store does not hold; nobody votes in
\* e3.
Ballots ==
  { [electionId |-> "e1", positionIds |-> <<"p1">>, choice |-> {"c1"}],
    [electionId |-> "e1", positionIds |-> <<"p1">>, choice |-> {"c2"}],
    [electionId |-> "e1", positionIds |-> <<"p2", "p1">>,
     choice |-> {"c3", "c1"}],
    [electionId |-> "e9", positionIds |-> <<"p9">>, choice |-> {}] }

\* A vote transaction on the ledger: the contract increments the voteCount
\* of the chosen candidates and emits Voted(voter, electionId, positionIds).
\* The callback gets the three arguments and, last, the payload of the
\* event (its log and transaction), which holds the candidates voted for.
CastVote(addrs, ballots) ==
  /\ Len(emitted) < MaxChainVotes
  /\ \E voter \in addrs, b \in ballots :
       /\ chain' = [c \in ChainCandidateIds |->
                      IF c \in b.choice THEN chain[c] + 1 ELSE chain[c]]
       /\ emitted' = Append(emitted, [voter |-> voter,
                                      electionId |-> b.electionId,
                                      positionIds |-> b.positionIds,
                                      event |-> b.choice])
  /\ passes' = [q \in 1..Len(passes) |-> [passes[q] EXCEPT !.fresh = FALSE]]
  /\ UNCHANGED <<lifecycle, policy, storeTables, votes, nextVoteId, delivered,
                 handlers, faults, log>>

(* ------------------------------ calls --------------------------------- *)

\* How an awaited store or ledger call may end: it completes (TRUE), or it
\* fails (FALSE) while the bound on failures allows one more.
Outcomes == IF faults < MaxFaults THEN {TRUE, FALSE} ELSE {TRUE}

(* ----------------------------- console -------------------------------- *)

\* A console line: what it reports and about which id.
Line(kind, key) ==
  [kind |-> kind, key |-> key, who |-> NULL, onChain |-> 0, db |-> 0]

\* "Vote already exists for student ... and candidate ..."
ExistsLine(studentId, candidateId) ==
  [kind |-> "vote-exists", key |-> candidateId, who |-> studentId,
   onChain |-> 0, db |-> 0]

\* The mismatch line of syncVoteCounts, with the two counts it prints.
MismatchLine(candidateId, onChainVotes, dbVotes) ==
  [kind |-> "mismatch", key |-> candidateId, who |-> NULL,
   onChain |-> onChainVotes, db |-> dbVotes]

(* ---------------------- the Voted callback ---------------------------- *)

\* An invocation that has not started.  resolved, tried, made and iter
\* record what the invocation did: the Student its wallet lookup returned
\* ("?" before the lookup), the (student, candidate) pairs whose insert the
\* store executed (and accepted, or rejected as a duplicate), the ids of the
\* rows it inserted, and the index of the last position id whose iteration
\* of the loop began.
IdleHandler ==
  [pc |-> "idle", voter |-> << >>, electionId |-> NULL, positionIds |-> << >>,
   event |-> {}, i |-> 0, student |-> NULL, snap |-> NoSnap,
   position |-> NULL, cand |-> NULL, resolved |-> "?", tried |-> {},
   made |-> {}, iter |-> 0]

\* The callback returned: its locals are gone.
Finish(r) ==
  [r EXCEPT !.pc = "done", !.i = 0, !.student = NULL, !.snap = NoSnap,
            !.position = NULL, !.cand = NULL]

FreeHandlers == {h \in 1..MaxHandlers : handlers[h].pc = "idle"}

\* contract.on("Voted", async (voter, electionId, positionIds, event) => ...):
\* the callback starts and suspends on prisma.election.findUnique.
Invoke(ev) ==
  /\ FreeHandlers # {}
  /\ LET h == CHOOSE k \in FreeHandlers : \A m \in FreeHandlers : k <= m
     IN handlers' = [handlers EXCEPT ![h] =
          [IdleHandler EXCEPT !.pc = "findElection", !.voter = ev.voter,
                              !.electionId = ev.electionId,
                              !.positionIds = ev.positionIds,
                              !.event = ev.event]]

\* The provider hands the next emitted event to the callback.
Deliver ==
  /\ delivered < Len(emitted)
  /\ Invoke(emitted[delivered + 1])
  /\ delivered' = delivered + 1
  /\ UNCHANGED <<lifecycle, policy, storeTables, votes, nextVoteId, chain, emitted,
                 passes, faults, log>>

\* The provider hands an event to the callback a second time.
Redeliver ==
  /\ \E k \in 1..delivered : Invoke(emitted[k])
  /\ UNCHANGED <<lifecycle, policy, storeTables, votes, nextVoteId, chain, emitted,
                 delivered, passes, faults, log>>

\* The loop of listener.js over the candidates of a position:
\* the first candidate with the highest voteCount above 0, or NULL.
RECURSIVE HighestVoted(_, _, _, _)
HighestVoted(cands, snap, maxVotes, votedCandidateId) ==
  IF cands = << >>
    THEN votedCandidateId
    ELSE IF snap[Head(cands)] > maxVotes
      THEN HighestVoted(Tail(cands), snap, snap[Head(cands)], Head(cands))
      ELSE HighestVoted(Tail(cands), snap, maxVotes, votedCandidateId)

\* onChainElection.positions.find((p) => p.id === positionId): the indices
\* of the matching on-chain positions.
OnChainPosition(electionId, positionId) ==
  {k \in 1..Len(ChainPositions(electionId)) :
     ChainPositions(electionId)[k].id = positionId}

\* listener.js, the for loop of processVoteEvent from position index i up to
\* its next await (prisma.vote.findFirst) or its end: the invocation and the
\* lines it prints on the way.
RECURSIVE ListenerLoop(_, _)
ListenerLoop(r, i) ==
  IF i > Len(r.positionIds)
    THEN [h |-> Finish(r), out |-> {}]
    ELSE LET found == OnChainPosition(r.electionId, r.positionIds[i])
         IN IF found = {}
              THEN LET rest == ListenerLoop([r EXCEPT !.iter = i], i + 1)
                   IN [h |-> rest.h,
                       out |-> rest.out \cup
                         {Line("position-not-on-chain", r.positionIds[i])}]
              ELSE LET pos == ChainPositions(r.electionId)[
                                CHOOSE k \in found : \A m \in found : k <= m]
                       voted == HighestVoted(pos.candidates, r.snap, 0, NULL)
                   IN IF voted = NULL
                        THEN LET rest == ListenerLoop([r EXCEPT !.iter = i],
                                                      i + 1)
                             IN [h |-> rest.h,
                                 out |-> rest.out \cup
                                   {Line("no-voted-candidate", r.positionIds[i])}]
                        ELSE [h |-> [r EXCEPT !.pc = "findVote", !.i = i,
                                              !.iter = i, !.cand = voted],
                              out |-> {}]

\* part_001, the for loop of processVoteEvent at position index i: it
\* suspends at once on prisma.position.findFirst, or ends.
LegacyLoop(r, i) ==
  IF i > Len(r.positionIds)
    THEN [h |-> Finish(r), out |-> {}]
    ELSE [h |-> [r EXCEPT !.pc = "findPosition", !.i = i, !.iter = i,
                          !.position = NULL, !.student = NULL,
                          !.cand = NULL],
          out |-> {}]

\* A loop that ends with the iteration that failed or was skipped.
LoopAborted(r) == [h |-> Finish(r), out |-> {}]

\* continue: the next iteration of the loop of the running program.
Continue(r) ==
  IF policy = "report-only"
    THEN ListenerLoop(r, r.i + 1)
    ELSE LegacyLoop(r, r.i + 1)

\* An invocation that moves on without printing the lines of its step.
ResumeSilent(h, r, more) ==
  /\ handlers' = [handlers EXCEPT ![h] = r.h]
  /\ log' = log \cup r.out

\* The invocation h moves to r.h and prints r.out and more.
Resume(h, r, more) ==
  /\ handlers' = [handlers EXCEPT ![h] = r.h]
  /\ log' = log \cup r.out \cup more

\* const election = await prisma.election.findUnique(...); then
\* processVoteEvent up to its first await, the warning for an unknown
\* election, or the catch of the callback.
FindElection(h) ==
  /\ handlers[h].pc = "findElection"
  /\ \E ok \in Outcomes :
       /\ faults' = IF ok THEN faults ELSE faults + 1
       /\ LET r == handlers[h]
          IN IF ~ok
               THEN Resume(h, [h |-> Finish(r), out |-> {}],
                           {Line("callback-error", r.electionId)})
               ELSE IF ElectionFindUnique(r.electionId) = NULL
                 THEN Resume(h, [h |-> Finish(r), out |-> {}],
                             {Line("unknown-election", r.electionId)})
                 ELSE IF policy = "report-only"
                   THEN Resume(h, [h |-> [r EXCEPT !.pc = "findStudent"],
                                   out |-> {}], {})
                   ELSE Resume(h, LegacyLoop(r, 1), {})
  /\ UNCHANGED <<lifecycle, policy, storeTables, votes, nextVoteId, chain, emitted,
                 delivered, passes>>

\* listener.js: const student = await prisma.student.findFirst({ where:
\* { wallet: voter } }); an unknown wallet drops the event.
FindStudent(h) ==
  /\ policy = "report-only"
  /\ handlers[h].pc = "findStudent"
  /\ \E ok \in Outcomes :
       /\ faults' = IF ok THEN faults ELSE faults + 1
       /\ LET r == handlers[h]
              student == StudentFindFirst(r.voter)
          IN IF ~ok
               THEN Resume(h, [h |-> Finish(r), out |-> {}],
                           {Line("chain-data-error", r.electionId)})
               ELSE IF student = NULL
                 THEN Resume(h, [h |-> Finish([r EXCEPT !.resolved = NULL]),
                                 out |-> {}],
                             {Line("no-student", r.electionId)})
                 ELSE Resume(h, [h |-> [r EXCEPT !.pc = "getElection",
                                                 !.student = student,
                                                 !.resolved = student],
                                 out |-> {}], {})
  /\ UNCHANGED <<lifecycle, policy, storeTables, votes, nextVoteId, chain, emitted,
                 delivered, passes>>

\* listener.js: const onChainElection = await contract.getElection(
\* electionId); then the loop up to its first prisma.vote.findFirst.
GetElection(h) ==
  /\ policy = "report-only"
  /\ handlers[h].pc = "getElection"
  /\ \E ok \in Outcomes :
       /\ faults' = IF ok THEN faults ELSE faults + 1
       /\ LET r == handlers[h]
          IN IF ~ok
               THEN Resume(h, [h |-> Finish(r), out |-> {}],
                           {Line("chain-data-error", r.electionId)})
               ELSE Resume(h, ListenerLoop([r EXCEPT !.snap = chain], 1), {})
  /\ UNCHANGED <<lifecycle, policy, storeTables, votes, nextVoteId, chain, emitted,
                 delivered, passes>>

\* part_001: const position = await prisma.position.findFirst(...).
FindPosition(h) ==
  /\ policy = "synthetic-attribution"
  /\ handlers[h].pc = "findPosition"
  /\ \E ok \in Outcomes :
       /\ faults' = IF ok THEN faults ELSE faults + 1
       /\ LET r == handlers[h]
              position == PositionFindFirst(r.positionIds[r.i], r.electionId)
          IN IF ~ok
               THEN Resume(h, Continue(r),
                           {Line("position-error", r.positionIds[r.i])})
               ELSE IF position = NULL
                 THEN Resume(h, Continue(r),
                             {Line("position-not-in-store", r.positionIds[r.i])})
                 ELSE Resume(h, [h |-> [r EXCEPT !.pc = "findStudentLower",
                                                 !.position = position],
                                 out |-> {}], {})
  /\ UNCHANGED <<lifecycle, policy, storeTables, votes, nextVoteId, chain, emitted,
                 delivered, passes>>

\* part_001: const student = await prisma.student.findFirst({ where:
\* { wallet: voter.toLowerCase() } }); then the first candidate of the
\* position is taken as the one voted for.
FindStudentLower(h) ==
  /\ policy = "synthetic-attribution"
  /\ handlers[h].pc = "findStudentLower"
  /\ \E ok \in Outcomes :
       /\ faults' = IF ok THEN faults ELSE faults + 1
       /\ LET r == handlers[h]
              student == StudentFindFirst(ToLowerCase(r.voter))
              cands == PositionCandidates(r.position)
          IN IF ~ok
               THEN Resume(h, Continue(r),
                           {Line("position-error", r.positionIds[r.i])})
               ELSE IF student = NULL
                 THEN Resume(h, Continue([r EXCEPT !.resolved = NULL]),
                             {Line("no-student", r.electionId)})
                 ELSE IF cands = << >>
                   THEN Resume(h, Continue([r EXCEPT !.resolved = student]),
                               {Line("no-candidates", r.positionIds[r.i])})
                   ELSE Resume(h, [h |-> [r EXCEPT !.pc = "findVote",
                                                   !.student = student,
                                                   !.resolved = student,
                                                   !.cand = cands[1]],
                                   out |-> {}], {})
  /\ UNCHANGED <<lifecycle, policy, storeTables, votes, nextVoteId, chain, emitted,
                 delivered, passes>>

\* An existing row that is written again, with a new id.
ExistingVoteRewritten(vs, existing) ==
  (vs \ existing) \cup {[v EXCEPT !.id = @ + 100] : v \in existing}

\* if (existingVote) { console.log(...); continue; }: the store is left as
\* it is.
ExistingVote(vs, existing) == vs

\* const existingVote = await prisma.vote.findFirst(...): an existing row
\* ends the iteration, none leads to the insert.
FindVote(h) ==
  /\ handlers[h].pc = "findVote"
  /\ \E ok \in Outcomes :
       /\ faults' = IF ok THEN faults ELSE faults + 1
       /\ LET r == handlers[h]
              existing == VoteFindFirst(votes, r.student, r.cand)
          IN IF ~ok
               THEN /\ Resume(h, Continue(r),
                              {Line("position-error", r.positionIds[r.i])})
                    /\ votes' = votes
               ELSE IF existing # {}
                 THEN /\ Resume(h, Continue(r),
                                {ExistsLine(r.student, r.cand)})
                      /\ votes' = ExistingVote(votes, existing)
                 ELSE /\ Resume(h, [h |-> [r EXCEPT !.pc = "createVote"],
                                    out |-> {}], {})
                      /\ votes' = votes
  /\ UNCHANGED <<lifecycle, policy, storeTables, nextVoteId, chain, emitted,
                 delivered, passes>>

\* await prisma.vote.create(...): the row is inserted, or the call throws
\* (a rejected insert, or a store failure) and the catch of the iteration
\* prints the error; either way the loop goes on.
CreateVote(h) ==
  /\ handlers[h].pc = "createVote"
  /\ \E ok \in Outcomes :
       /\ faults' = IF ok THEN faults ELSE faults + 1
       /\ LET r == handlers[h]
              after == VoteCreate(votes, nextVoteId, r.student, r.cand)
              pair == <<r.student, r.cand>>
          IN IF ~ok
               THEN /\ Resume(h, Continue(r),
                              {Line("position-error", r.positionIds[r.i])})
                    /\ UNCHANGED <<votes, nextVoteId>>
               ELSE IF after = votes
                 THEN /\ Resume(h, Continue([r EXCEPT !.tried =
                                  IF ForeignKeysHold(r.student, r.cand)
                                    THEN @ \cup {pair} ELSE @]),
                                {Line("position-error", r.positionIds[r.i])})
                      /\ UNCHANGED <<votes, nextVoteId>>
                 ELSE /\ Resume(h, Continue([r EXCEPT !.tried = @ \cup {pair},
                                                       !.made = @ \cup {nextVoteId}]),
                                {})
                      /\ votes' = after
                      /\ nextVoteId' = nextVoteId + 1
  /\ UNCHANGED <<lifecycle, policy, storeTables, chain, emitted, delivered, passes>>

\* One step of one invocation of the callback.
processVoteEvent(h) ==
  \/ FindElection(h)
  \/ FindStudent(h)
  \/ GetElection(h)
  \/ FindPosition(h)
  \/ FindStudentLower(h)
  \/ FindVote(h)
  \/ CreateVote(h)

(* -------------------------- syncVoteCounts ---------------------------- *)

\* The elements of a finite set as a sequence.
RECURSIVE SeqOf(_)
SeqOf(S) ==
  IF S = {}
    THEN << >>
    ELSE LET x == CHOOSE y \in S : TRUE IN <<x>> \o SeqOf(S \ {x})

\* prisma.election.findMany({ where: { liveStatus: "LIVE",
\* smartContractId: { not: null } } }): the ids of the rows.
ElectionFindMany ==
  SeqOf({e.id : e \in {x \in elections :
                         x.liveStatus = "LIVE" /\ x.smartContractId # NULL}})

\* The sequences without repetition of n elements of S.
RECURSIVE Arrangements(_, _)
Arrangements(S, n) ==
  IF n = 0 \/ S = {}
    THEN {<< >>}
    ELSE UNION {{<<x>> \o t : t \in Arrangements(S \ {x}, n - 1)} : x \in S}

\* The students a findMany with { eligible: true, NOT: { Vote: { some:
\* { candidateId } } } } matches.
EligibleStudents(vs, candidateId) ==
  {st.id : st \in {x \in students :
      x.eligible /\ ~\E v \in vs : v.studentId = x.id
                                     /\ v.candidateId = candidateId}}

\* A findMany without its take and its eligible filter.
StudentFindManyAll(vs, candidateId, take) ==
  Arrangements({st.id : st \in {x \in students :
      ~\E v \in vs : v.studentId = x.id /\ v.candidateId = candidateId}},
    Cardinality(students))

\* prisma.student.findMany({ where: ..., take }): the results the store may
\* return, as no order is asked for.
StudentFindMany(vs, candidateId, take) ==
  Arrangements(EligibleStudents(vs, candidateId), take)

\* The candidates of the on-chain positions, in the order of the two nested
\* loops of listener.js, which looks none of them up in the store.
RECURSIVE ListenerWork(_)
ListenerWork(chainPositions) ==
  IF chainPositions = << >>
    THEN << >>
    ELSE Head(chainPositions).candidates \o ListenerWork(Tail(chainPositions))

\* The candidates of a sequence that the store holds for position dbPosition.
RECURSIVE KnownCandidates(_, _)
KnownCandidates(cands, dbPosition) ==
  IF cands = << >>
    THEN << >>
    ELSE IF \E k \in 1..Len(PositionCandidates(dbPosition)) :
               PositionCandidates(dbPosition)[k] = Head(cands)
      THEN <<Head(cands)>> \o KnownCandidates(Tail(cands), dbPosition)
      ELSE KnownCandidates(Tail(cands), dbPosition)

\* The candidates part_001 compares: those of the on-chain positions that
\* election.positions holds, and of these the ones dbPosition.candidates
\* holds; the others are skipped with a warning.
RECURSIVE LegacyWork(_, _)
LegacyWork(chainPositions, electionId) ==
  IF chainPositions = << >>
    THEN << >>
    ELSE IF PositionFindFirst(Head(chainPositions).id, electionId) = NULL
      THEN LegacyWork(Tail(chainPositions), electionId)
      ELSE KnownCandidates(Head(chainPositions).candidates,
                           Head(chainPositions).id)
           \o LegacyWork(Tail(chainPositions), electionId)

\* An invocation of syncVoteCounts that has just been called.  made, clean,
\* fresh, alone, quota, picked and begun record what the pass met: the ids
\* of the rows it inserted, whether none of its calls failed, whether the
\* ledger is still as it was when the pass started, whether every earlier
\* pass had returned by then, the number of missing votes it computed per
\* candidate, the elections its findMany returned and the elections whose
\* iteration of the loop began.
NewPass ==
  [pc |-> "findMany", todo |-> << >>, election |-> NULL, snap |-> NoSnap,
   work |-> << >>, cand |-> NULL, studs |-> << >>,
   made |-> {}, clean |-> TRUE, fresh |-> TRUE,
   alone |-> \A q \in 1..Len(passes) : passes[q].pc = "done",
   quota |-> [c \in CandidateIds |-> 0], picked |-> {}, begun |-> {}]

\* syncVoteCounts returned: its locals are gone.
PassDone(r) ==
  [r EXCEPT !.pc = "done", !.todo = << >>, !.election = NULL,
            !.snap = NoSnap, !.work = << >>, !.cand = NULL, !.studs = << >>]

\* for (const election of elections): the next election, up to the await
\* of contract.getElection, or the end of the pass.
NextElection(r) ==
  IF r.todo = << >>
    THEN PassDone(r)
    ELSE [r EXCEPT !.pc = "getElection", !.election = Head(r.todo),
                   !.todo = Tail(r.todo), !.snap = NoSnap, !.work = << >>,
                   !.cand = NULL, !.studs = << >>,
                   !.begun = @ \cup {Head(r.todo)}]

\* The next candidate of the election, up to the await of
\* prisma.vote.count, or the next election.
NextCandidate(r) ==
  IF r.work = << >>
    THEN NextElection(r)
    ELSE [r EXCEPT !.pc = "count", !.cand = Head(r.work),
                   !.work = Tail(r.work), !.studs = << >>]

\* for (const student of eligibleStudents): the next student, up to the
\* await of prisma.vote.create, or the next candidate.
NextStudent(r) ==
  IF r.studs = << >>
    THEN NextCandidate(r)
    ELSE [r EXCEPT !.pc = "create"]

\* A failure of one election that ends the pass.
PassAborted(r) == PassDone([r EXCEPT !.clean = FALSE])

\* The catch around one election: the error is printed and the pass goes on
\* with the next election.
ElectionFailed(r) ==
  NextElection([r EXCEPT !.clean = FALSE])

\* syncVoteCounts is called (by main, or by its interval timer).
StartPass(limit) ==
  /\ Len(passes) < limit
  /\ passes' = Append(passes, NewPass)
  /\ UNCHANGED <<lifecycle, policy, storeTables, votes, nextVoteId, chain, emitted,
                 delivered, handlers, faults, log>>

\* const activeElections = await prisma.election.findMany(...)
SyncFindMany(p) ==
  /\ passes[p].pc = "findMany"
  /\ \E ok \in Outcomes :
       /\ faults' = IF ok THEN faults ELSE faults + 1
       /\ LET r == passes[p]
          IN IF ~ok
               THEN /\ passes' = [passes EXCEPT ![p] =
                                    PassDone([r EXCEPT !.clean = FALSE])]
                    /\ log' = log \cup {Line("sync-error", NULL)}
               ELSE /\ passes' = [passes EXCEPT ![p] =
                                    NextElection([r EXCEPT
                                      !.todo = ElectionFindMany,
                                      !.picked = {ElectionFindMany[k] :
                                         k \in 1..Len(ElectionFindMany)}])]
                    /\ log' = log
  /\ UNCHANGED <<lifecycle, policy, storeTables, votes, nextVoteId, chain, emitted,
                 delivered, handlers>>

\* const onChainElection = await contract.getElection(election.id)
SyncGetElection(p) ==
  /\ passes[p].pc = "getElection"
  /\ \E ok \in Outcomes :
       /\ faults' = IF ok THEN faults ELSE faults + 1
       /\ LET r == passes[p]
              work == IF policy = "report-only"
                        THEN ListenerWork(ChainPositions(r.election))
                        ELSE LegacyWork(ChainPositions(r.election), r.election)
          IN IF ~ok
               THEN /\ passes' = [passes EXCEPT ![p] = ElectionFailed(r)]
                    /\ log' = log \cup {Line("election-sync-error", r.election)}
               ELSE /\ passes' = [passes EXCEPT ![p] =
                         NextCandidate([r EXCEPT !.snap = chain, !.work = work])]
                    /\ log' = log
  /\ UNCHANGED <<lifecycle, policy, storeTables, votes, nextVoteId, chain, emitted,
                 delivered, handlers>>

\* A mismatch that is repaired with a row for the first student.
ReportMismatchRepaired(vs, id, candidateId, onChainVotes, dbVotes) ==
  IF onChainVotes > dbVotes
    THEN VoteCreate(vs, id, "s1", candidateId)
    ELSE vs

\* listener.js: "If there's a discrepancy, log it (we can't directly modify
\* vote counts)": the store is left as it is.
ReportMismatch(vs, id, candidateId, onChainVotes, dbVotes) == vs

\* listener.js: const dbVotes = await prisma.vote.count(...); a mismatch is
\* printed and nothing is written.
SyncCountReport(p) ==
  /\ policy = "report-only"
  /\ passes[p].pc = "count"
  /\ \E ok \in Outcomes :
       /\ faults' = IF ok THEN faults ELSE faults + 1
       /\ LET r == passes[p]
              onChainVotes == r.snap[r.cand]
              dbVotes == VoteCount(votes, r.cand)
          IN IF ~ok
               THEN /\ passes' = [passes EXCEPT ![p] = ElectionFailed(r)]
                    /\ log' = log \cup {Line("election-sync-error", r.election)}
                    /\ votes' = votes
               ELSE /\ passes' = [passes EXCEPT ![p] = NextCandidate(r)]
                    /\ IF onChainVotes # dbVotes
                         THEN /\ log' = log \cup
                                   {MismatchLine(r.cand, onChainVotes, dbVotes)}
                              /\ votes' = ReportMismatch(votes, nextVoteId, r.cand,
                                                         onChainVotes, dbVotes)
                         ELSE /\ log' = log
                              /\ votes' = votes
  /\ UNCHANGED <<lifecycle, policy, storeTables, nextVoteId, chain, emitted,
                 delivered, handlers>>

\* part_001: voteCount - dbVoteCount, the number of votes to add.
MissingVotes(voteCount, dbVoteCount) == voteCount - dbVoteCount

\* part_001: const dbVoteCount = await prisma.vote.count(...); when the
\* ledger has more votes the pass goes on to select students.
SyncCountRepair(p) ==
  /\ policy = "synthetic-attribution"
  /\ passes[p].pc = "count"
  /\ \E ok \in Outcomes :
       /\ faults' = IF ok THEN faults ELSE faults + 1
       /\ LET r == passes[p]
              voteCount == r.snap[r.cand]
              dbVoteCount == VoteCount(votes, r.cand)
          IN IF ~ok
               THEN /\ passes' = [passes EXCEPT ![p] = ElectionFailed(r)]
                    /\ log' = log \cup {Line("election-sync-error", r.election)}
               ELSE /\ passes' = [passes EXCEPT ![p] =
                         IF voteCount > dbVoteCount
                           THEN [r EXCEPT !.pc = "findStudents",
                                  !.quota[r.cand] =
                                     MissingVotes(voteCount, dbVoteCount)]
                           ELSE NextCandidate(r)]
                    /\ log' = log
  /\ UNCHANGED <<lifecycle, policy, storeTables, votes, nextVoteId, chain, emitted,
                 delivered, handlers>>

\* part_001: const eligibleStudents = await prisma.student.findMany({ ...,
\* take: voteCount - dbVoteCount })
SyncFindStudents(p) ==
  /\ policy = "synthetic-attribution"
  /\ passes[p].pc = "findStudents"
  /\ \E ok \in Outcomes :
       /\ faults' = IF ok THEN faults ELSE faults + 1
       /\ LET r == passes[p]
          IN IF ~ok
               THEN /\ passes' = [passes EXCEPT ![p] = ElectionFailed(r)]
                    /\ log' = log \cup {Line("election-sync-error", r.election)}
               ELSE /\ \E eligibleStudents \in
                           StudentFindMany(votes, r.cand, r.quota[r.cand]) :
                         passes' = [passes EXCEPT ![p] =
                           NextStudent([r EXCEPT !.studs = eligibleStudents])]
                    /\ log' = log
  /\ UNCHANGED <<lifecycle, policy, storeTables, votes, nextVoteId, chain, emitted,
                 delivered, handlers>>

\* part_001: await prisma.vote.create(...) for one selected student, in a
\* try whose catch prints the error and goes on with the other students.
SyncCreate(p) ==
  /\ policy = "synthetic-attribution"
  /\ passes[p].pc = "create"
  /\ \E ok \in Outcomes :
       /\ faults' = IF ok THEN faults ELSE faults + 1
       /\ LET r == passes[p]
              after == VoteCreate(votes, nextVoteId, Head(r.studs), r.cand)
              rest == [r EXCEPT !.studs = Tail(r.studs)]
          IN IF ~ok
               THEN /\ passes' = [passes EXCEPT ![p] =
                                    NextStudent([rest EXCEPT !.clean = FALSE])]
                    /\ log' = log \cup {Line("create-error", r.cand)}
                    /\ UNCHANGED <<votes, nextVoteId>>
               ELSE IF after = votes
                 THEN /\ passes' = [passes EXCEPT ![p] = NextStudent(rest)]
                      /\ log' = log \cup {Line("create-error", r.cand)}
                      /\ UNCHANGED <<votes, nextVoteId>>
                 ELSE /\ passes' = [passes EXCEPT ![p] =
                           NextStudent([rest EXCEPT !.made = @ \cup {nextVoteId}])]
                      /\ log' = log
                      /\ votes' = after
                      /\ nextVoteId' = nextVoteId + 1
  /\ UNCHANGED <<lifecycle, policy, storeTables, chain, emitted, delivered, handlers>>

\* One step of one invocation of syncVoteCounts.
syncVoteCounts(p) ==
  \/ SyncFindMany(p)
  \/ SyncGetElection(p)
  \/ SyncCountReport(p)
  \/ SyncCountRepair(p)
  \/ SyncFindStudents(p)
  \/ SyncCreate(p)

(* ----------------------------- ingestion ------------------------------ *)

Policies == {"report-only", "synthetic-attribution"}

Init ==
  /\ policy \in Policies
  /\ elections = ElectionRows
  /\ positions = PositionRows
  /\ candidates = CandidateRows
  /\ students = StudentRows
  /\ votes = {}
  /\ nextVoteId = 1
  /\ chain = [c \in ChainCandidateIds |-> 0]
  /\ emitted = << >>
  /\ delivered = 0
  /\ handlers = [h \in 1..MaxHandlers |-> IdleHandler]
  /\ passes = << >>
  /\ faults = 0
  /\ log = {}
  /\ endpoint = TRUE
  /\ outages = 0
  /\ listeners = 0
  /\ timers = [setup |-> 0, reconnect |-> 0]
  /\ supervisor = [pc |-> "start", pass |-> 0, sync |-> FALSE,
                   heartbeat |-> FALSE]
  /\ echoed = 0
  /\ shutdown = "running"

NextIngest ==
  \/ CastVote(Addresses, Ballots)
  \/ Deliver
  \/ Redeliver
  \/ \E h \in 1..MaxHandlers : processVoteEvent(h)

SpecIngest == Init /\ [][NextIngest]_vars

(* --------------------------- reconciliation --------------------------- *)

\* The ledger moves on without any event reaching the callback.
NextSync ==
  \/ CastVote({<<"a", "b">>}, Ballots)
  \/ StartPass(MaxPasses)
  \/ \E p \in 1..Len(passes) : syncVoteCounts(p)

SpecSync == Init /\ [][NextSync]_vars

(* --------------------------- the whole service ------------------------ *)

\* The votes cast while ingestion and reconciliation run side by side.
ServiceBallots ==
  { [electionId |-> "e1", positionIds |-> <<"p1">>, choice |-> {"c1"}],
    [electionId |-> "e1", positionIds |-> <<"p2", "p1">>,
     choice |-> {"c3", "c1"}] }

Next ==
  \/ CastVote({<<"a", "b">>}, ServiceBallots)
  \/ Deliver
  \/ Redeliver
  \/ \E h \in 1..MaxHandlers : processVoteEvent(h)
  \/ StartPass(MaxServicePasses)
  \/ \E p \in 1..Len(passes) : syncVoteCounts(p)

Spec == Init /\ [][Next]_vars

(* ------------------------ start-up and reconnection ------------------- *)

\* What CastVote, the callback and syncVoteCounts work on.
program == <<policy, storeTables, votes, nextVoteId, chain, emitted,
             handlers, passes, faults>>

\* The endpoint stops answering without any provider reporting it.
EndpointDown ==
  /\ endpoint
  /\ outages < MaxOutages
  /\ endpoint' = FALSE
  /\ outages' = outages + 1
  /\ UNCHANGED <<program, delivered, log, listeners, timers, supervisor,
                 echoed, shutdown>>

\* The endpoint answers again.
EndpointUp ==
  /\ ~endpoint
  /\ endpoint' = TRUE
  /\ UNCHANGED <<program, delivered, log, outages, listeners, timers,
                 supervisor, echoed, shutdown>>

\* The body of setupMainContractListener ran to "Listener set up
\* successfully": one more contract has a Voted callback.  A subscription
\* gets the events emitted from now on: with no other listener at work, the
\* events emitted before are not delivered; a second listener hands on the
\* events emitted after it was registered.
Subscribed ==
  /\ listeners' = listeners + 1
  /\ delivered' = IF listeners = 0 THEN Len(emitted) ELSE delivered
  /\ echoed' = IF listeners = 1 THEN Len(emitted) ELSE echoed

\* A provider error that nothing answers.
NoReconnect(t) == t

\* listener.js, provider.on("error", ...): setTimeout(() =>
\* setupMainContractListener(), 30000).
ReconnectLater(t) == [t EXCEPT !.reconnect = @ + 1]

\* catch of setupMainContractListener in listener.js:
\* setTimeout(setupMainContractListener, 60000); return null.
RetryLater(t) == [t EXCEPT !.setup = @ + 1]

\* A main that ends the process when the listener cannot be set up.
MainGivesUp(sv) == [sv EXCEPT !.pc = "exited"]

\* listener.js, main: if (!contract) { setTimeout(main, 60000); return; }
MainRetry(sv) == [sv EXCEPT !.pc = "retry"]

\* part_001, main: if (!contract) { ...; process.exit(1); }
MainExit(sv) == [sv EXCEPT !.pc = "exited"]

\* The provider of a listener reports a connection error.  The listener may
\* or may not get events afterwards, and the endpoint may or may not answer
\* the next connection.  listener.js answers with a reconnect in 30 s;
\* part_001 registers no error callback.
TransportError ==
  /\ listeners > 0
  /\ outages < MaxOutages
  /\ outages' = outages + 1
  /\ endpoint' \in BOOLEAN
  /\ listeners' \in {listeners, listeners - 1}
  /\ echoed' = IF listeners' > 1 THEN echoed ELSE 0
  /\ timers' = IF policy = "report-only"
                 THEN ReconnectLater(timers)
                 ELSE timers
  /\ log' = log \cup {Line("provider-error", NULL)}
  /\ UNCHANGED <<program, delivered, supervisor, shutdown>>

\* main is called (at load, or by its retry timer): it sets the listener up
\* and, with a contract in hand, calls syncVoteCounts, which runs up to its
\* first await.  Without one, listener.js has two timers pending (the retry
\* of the set-up and the retry of main) and part_001 exits.
main ==
  /\ supervisor.pc \in {"start", "retry"}
  /\ IF endpoint
       THEN /\ Subscribed
            /\ passes' = Append(passes, NewPass)
            /\ supervisor' = [supervisor EXCEPT !.pc = "sync",
                                                !.pass = Len(passes) + 1]
            /\ UNCHANGED <<timers, log>>
       ELSE /\ IF policy = "report-only"
                 THEN /\ timers.setup < MaxRetries
                      /\ timers' = RetryLater(timers)
                      /\ supervisor' = MainRetry(supervisor)
                 ELSE /\ timers' = timers
                      /\ supervisor' = MainExit(supervisor)
            /\ log' = log \cup {Line("setup-error", NULL)}
            /\ UNCHANGED <<listeners, delivered, echoed, passes>>
  /\ UNCHANGED <<policy, storeTables, votes, nextVoteId, chain, emitted,
                 handlers, faults, endpoint, outages, shutdown>>

\* A call that is not awaited: what follows it does not wait for it.
NotAwaited(r) == TRUE

\* await syncVoteCounts(): main goes on when the pass has returned.
Awaited(r) == r.pc = "done"

\* main after its initial pass: setInterval(syncVoteCounts, 5 min) and, in
\* listener.js, setInterval(sendHeartbeat, 1 min).
MainSchedule ==
  /\ supervisor.pc = "sync"
  /\ Awaited(passes[supervisor.pass])
  /\ supervisor' = [supervisor EXCEPT !.pc = "running", !.sync = TRUE,
                                      !.heartbeat = (policy = "report-only")]
  /\ UNCHANGED <<program, delivered, log, endpoint, outages, listeners,
                 timers, echoed, shutdown>>

\* The 60 s timer of the catch of setupMainContractListener fires.
RetrySetup ==
  /\ timers.setup > 0
  /\ IF endpoint
       THEN /\ Subscribed
            /\ timers' = [timers EXCEPT !.setup = @ - 1]
            /\ log' = log
       ELSE /\ timers' = RetryLater([timers EXCEPT !.setup = @ - 1])
            /\ log' = log \cup {Line("setup-error", NULL)}
            /\ UNCHANGED <<listeners, delivered, echoed>>
  /\ UNCHANGED <<program, endpoint, outages, supervisor, shutdown>>

\* The 30 s timer of the provider error callback fires.
Reconnect ==
  /\ timers.reconnect > 0
  /\ IF endpoint
       THEN /\ Subscribed
            /\ timers' = [timers EXCEPT !.reconnect = @ - 1]
            /\ log' = log
       ELSE /\ timers.setup < MaxRetries
            /\ timers' = RetryLater([timers EXCEPT !.reconnect = @ - 1])
            /\ log' = log \cup {Line("setup-error", NULL)}
            /\ UNCHANGED <<listeners, delivered, echoed>>
  /\ UNCHANGED <<program, endpoint, outages, supervisor, shutdown>>

\* The interval timer of syncVoteCounts fires: setInterval calls
\* syncVoteCounts whether or not an earlier call has returned.
Tick(limit) ==
  /\ supervisor.sync
  /\ StartPass(limit)

\* sendHeartbeat, on its interval timer.
Heartbeat ==
  /\ supervisor.heartbeat
  /\ log' = log \cup {Line("heartbeat", NULL)}
  /\ UNCHANGED <<program, delivered, lifecycle>>

\* A listener hands the next event to its callback.
OnVoted ==
  /\ listeners > 0
  /\ Deliver

\* The votes cast while the service starts and reconnects: one for a
\* candidate of e1, one in an election the store does not hold.
LifecycleBallots ==
  { [electionId |-> "e1", positionIds |-> <<"p1">>, choice |-> {"c1"}],
    [electionId |-> "e9", positionIds |-> <<"p9">>, choice |-> {}] }

\* Start-up: main, the retries of the set-up, the initial pass and the two
\* intervals, while the ledger moves on; no event reaches a callback.
NextStartup ==
  \/ CastVote({<<"a", "b">>}, LifecycleBallots)
  \/ EndpointDown
  \/ EndpointUp
  \/ main
  \/ MainSchedule
  \/ RetrySetup
  \/ Tick(MaxPasses)
  \/ Heartbeat
  \/ \E p \in 1..Len(passes) : syncVoteCounts(p)

\* Node runs a timer that is due and the continuation of a call that has
\* returned; nothing makes the endpoint come back.
FairStartup ==
  /\ WF_vars(main)
  /\ WF_vars(MainSchedule)
  /\ WF_vars(RetrySetup)
  /\ \A p \in 1..MaxPasses : WF_vars(p <= Len(passes) /\ syncVoteCounts(p))

SpecStartup == Init /\ [][NextStartup]_vars /\ FairStartup

\* The subscription: main up to its intervals, provider errors, reconnects,
\* and the events handed to the callback.  (An event that several listeners
\* hand to the callback is Redeliver, in Spec and SpecIngest.)
NextSubscriber ==
  \/ CastVote({<<"a", "b">>}, LifecycleBallots)
  \/ TransportError
  \/ EndpointUp
  \/ main
  \/ MainSchedule
  \/ RetrySetup
  \/ Reconnect
  \/ OnVoted
  \/ \E h \in 1..MaxHandlers : processVoteEvent(h)
  \/ \E p \in 1..Len(passes) : syncVoteCounts(p)

FairSubscriber ==
  /\ WF_vars(main)
  /\ WF_vars(RetrySetup)
  /\ WF_vars(Reconnect)
  /\ WF_vars(OnVoted)
  /\ \A h \in 1..MaxHandlers : WF_vars(processVoteEvent(h))

SpecSubscriber == Init /\ [][NextSubscriber]_vars /\ FairSubscriber

(* --------------------------- the interval ----------------------------- *)

\* main up to its intervals, and the interval of syncVoteCounts firing
\* MaxTicks times after the initial pass, while the ledger moves on.
NextPeriodic ==
  \/ CastVote({<<"a", "b">>}, LifecycleBallots)
  \/ main
  \/ MainSchedule
  \/ Tick(1 + MaxTicks)
  \/ \E p \in 1..Len(passes) : syncVoteCounts(p)

SpecPeriodic == Init /\ [][NextPeriodic]_vars

(* -------------------------- several listeners ------------------------ *)

\* A second listener, registered by a retry or a reconnect on a provider of
\* its own, hands the next event emitted since its registration to the same
\* callback.
OnVotedAgain ==
  /\ listeners > 1
  /\ echoed < Len(emitted)
  /\ Invoke(emitted[echoed + 1])
  /\ echoed' = echoed + 1
  /\ UNCHANGED <<policy, storeTables, votes, nextVoteId, chain, emitted,
                 passes, faults, delivered, log, endpoint, outages, listeners,
                 timers, supervisor, shutdown>>

\* The subscription with every listener it has: set-up, its retries and
\* reconnects, and each listener handing events to the callback.
NextListeners ==
  \/ CastVote({<<"a", "b">>}, LifecycleBallots)
  \/ EndpointDown
  \/ EndpointUp
  \/ TransportError
  \/ main
  \/ RetrySetup
  \/ Reconnect
  \/ OnVoted
  \/ OnVotedAgain
  \/ \E h \in 1..MaxHandlers : processVoteEvent(h)

SpecListeners == Init /\ [][NextListeners]_vars

(* ------------------------ faults and termination ---------------------- *)

\* const activeListeners = new Map(): nothing in the program adds an entry,
\* so the map is empty whenever the SIGINT callback walks it.
activeListeners == {}

\* An uncaught exception with no callback registered for it: Node prints it
\* and ends the process.
Crash(sd) == "exited"

\* listener.js, process.on("uncaughtException", ...): the error is printed
\* and the process keeps running.
KeepRunning(sd) == sd

\* The process has ended.
Exited == shutdown = "exited" \/ supervisor.pc = "exited"

\* process.on("SIGINT", async () => ...), up to the await of
\* prisma.$disconnect(): removeAllListeners is called on every entry of
\* activeListeners.  The callback runs on the event loop, so after the
\* call of main at the end of the file has reached its first await.
Sigint ==
  /\ ~Exited
  /\ supervisor.pc # "start"
  /\ shutdown = "running"
  /\ shutdown' = "disconnecting"
  /\ listeners' = listeners - Cardinality(activeListeners)
  /\ log' = log \cup {Line("shutting-down", NULL)}
  /\ UNCHANGED <<program, delivered, endpoint, outages, timers, supervisor,
                 echoed>>

\* await prisma.$disconnect() returns and the callback calls
\* process.exit(0); or it rejects, and the rejection of the callback is one
\* that nothing handles: listener.js gets it in its uncaughtException
\* callback (or Node only warns), part_001 has no such callback and Node
\* ends the process or only warns, depending on its version.
Disconnected ==
  /\ ~Exited
  /\ shutdown = "disconnecting"
  /\ \E ok \in Outcomes :
       /\ faults' = IF ok THEN faults ELSE faults + 1
       /\ IF ok
            THEN /\ shutdown' = "exited"
                 /\ log' = log \cup {Line("shutdown-complete", NULL)}
            ELSE /\ shutdown' \in IF policy = "report-only"
                                   THEN {KeepRunning("running")}
                                   ELSE {"running", Crash("running")}
                 /\ log' = log \cup {Line("uncaught", NULL)}
  /\ UNCHANGED <<policy, storeTables, votes, nextVoteId, chain, emitted,
                 handlers, passes, delivered, endpoint, outages, listeners,
                 timers, supervisor, echoed>>

\* Something throws where no try block is around it (a callback of the
\* provider, a timer).  listener.js prints it in its uncaughtException
\* callback; part_001 registers none.
UncaughtException ==
  /\ ~Exited
  /\ faults < MaxFaults
  /\ faults' = faults + 1
  /\ shutdown' = IF policy = "report-only"
                   THEN KeepRunning(shutdown)
                   ELSE Crash(shutdown)
  /\ log' = log \cup {Line("uncaught", NULL)}
  /\ UNCHANGED <<policy, storeTables, votes, nextVoteId, chain, emitted,
                 handlers, passes, delivered, endpoint, outages, listeners,
                 timers, supervisor, echoed>>

\* The service from its start to its end: start-up with its retries, the
\* events handed to the callback, faults that nothing catches, and SIGINT.
\* A process that has ended takes no step; the ledger goes on.
NextShutdown ==
  \/ CastVote({<<"a", "b">>}, LifecycleBallots)
  \/ EndpointDown
  \/ EndpointUp
  \/ Sigint
  \/ Disconnected
  \/ UncaughtException
  \/ ~Exited /\ main
  \/ ~Exited /\ MainSchedule
  \/ ~Exited /\ RetrySetup
  \/ ~Exited /\ Heartbeat
  \/ ~Exited /\ OnVoted
  \/ ~Exited /\ \E h \in 1..MaxHandlers : processVoteEvent(h)
  \/ ~Exited /\ \E p \in 1..Len(passes) : syncVoteCounts(p)

SpecShutdown == Init /\ [][NextShutdown]_vars

(* ------------------------------- claims ------------------------------- *)

Handlers == 1..MaxHandlers
Passes == 1..Len(passes)

RowsOfPair(pair) == VotesOf(votes, pair[1], pair[2])

SameEvent(h1, h2) ==
  /\ handlers[h1].pc # "idle"
  /\ handlers[h2].pc # "idle"
  /\ handlers[h1].voter = handlers[h2].voter
  /\ handlers[h1].electionId = handlers[h2].electionId
  /\ handlers[h1].positionIds = handlers[h2].positionIds

\* C1: in every reachable state, whatever the interleaving of the callback
\* invocations and the reconciliation passes, the store holds at most one
\* Vote row for each (studentId, candidateId) pair.
C1_OneVotePerPair ==
  \A s \in StudentIds, c \in CandidateIds :
    Cardinality(VotesOf(votes, s, c)) <= 1

\* C1 witness: an invocation of the callback and a reconciliation pass both
\* inserted the same pair; the pass came first and the insert of the
\* callback was rejected.
C1_Witness ==
  \E h \in Handlers, p \in Passes :
    \E pair \in handlers[h].tried :
      \E v \in RowsOfPair(pair) :
        v.id \in passes[p].made /\ v.id \notin handlers[h].made

FindsExisting(h) ==
  /\ handlers[h].pc = "findVote"
  /\ handlers'[h] # handlers[h]
  /\ faults' = faults
  /\ VotesOf(votes, handlers[h].student, handlers[h].cand) # {}

\* C3: when the existence check of an invocation finds a row for the pair,
\* the invocation issues no insert for it and the step leaves every Vote
\* row as it was.
C3_ExistingVoteNoOp ==
  [][\A h \in Handlers :
       FindsExisting(h) => /\ votes' = votes
                           /\ handlers'[h].pc # "createVote"
                           /\ handlers'[h].made = handlers[h].made]_vars

\* C3 witness: "Vote already exists" was printed for a pair, and the store
\* holds the one row of that pair.
C3_Witness ==
  \E l \in log :
    /\ l.kind = "vote-exists"
    /\ Cardinality(VotesOf(votes, l.who, l.key)) = 1

\* C4: two invocations of the callback for the same event never leave two
\* rows for a pair either of them handled, and together insert at most one
\* row per pair.
C4_RedeliveryOneRow ==
  \A h1 \in Handlers, h2 \in Handlers :
    (h1 # h2 /\ SameEvent(h1, h2)) =>
      /\ \A pair \in handlers[h1].tried \cup handlers[h2].tried :
           Cardinality(RowsOfPair(pair)) <= 1
      /\ \A s \in StudentIds, c \in CandidateIds :
           Cardinality({v \in VotesOf(votes, s, c) :
              v.id \in handlers[h1].made \cup handlers[h2].made}) <= 1

\* C4 witness: two invocations for the same event both passed the existence
\* check of the same pair before either inserted, and both have returned.
C4_Witness ==
  \E h1 \in Handlers, h2 \in Handlers :
    /\ h1 # h2
    /\ SameEvent(h1, h2)
    /\ handlers[h1].pc = "done"
    /\ handlers[h2].pc = "done"
    /\ handlers[h1].tried \cap handlers[h2].tried # {}

\* The pass q follows the pass p: p returned before q was called, none of
\* the calls of p failed, and the ledger is as it was when p started.
Consecutive(p, q) ==
  /\ q = p + 1
  /\ q <= Len(passes)
  /\ passes[p].pc = "done"
  /\ passes[p].clean
  /\ passes[p].fresh
  /\ passes[q].alone

\* C5: of two consecutive passes over an unchanged ledger, the first of
\* which completed its calls, the second inserts no row, under either
\* policy.
C5_SecondPassWritesNothing ==
  \A p \in Passes, q \in Passes :
    Consecutive(p, q) => passes[q].made = {}

\* C5 witness: the first pass inserted rows, the second has returned and
\* the ledger is still unchanged.
C5_Witness ==
  \E p \in Passes, q \in Passes :
    /\ Consecutive(p, q)
    /\ passes[p].made # {}
    /\ passes[q].pc = "done"
    /\ passes[q].clean

\* The Student that owns an address, whatever the case of its letters.
Owners(addr) ==
  {st.id : st \in {x \in students :
      x.wallet # NoWallet /\ ToLowerCase(x.wallet) = ToLowerCase(addr)}}

\* C6: two events whose voter addresses differ only in letter case resolve
\* to the same Student, the owner of the wallet, whatever the case in which
\* the wallet is stored.
C6_CaseVariantsSameStudent ==
  \A h1 \in Handlers, h2 \in Handlers :
    ( /\ handlers[h1].resolved # "?"
      /\ handlers[h2].resolved # "?"
      /\ handlers[h1].voter # handlers[h2].voter
      /\ ToLowerCase(handlers[h1].voter) = ToLowerCase(handlers[h2].voter)
      /\ Owners(handlers[h1].voter) # {} )
    => /\ handlers[h1].resolved = handlers[h2].resolved
       /\ handlers[h1].resolved \in Owners(handlers[h1].voter)

\* The pass p takes a step (a vote cast on the ledger is no step of a pass).
StepOfPass(p) ==
  /\ p <= Len(passes)
  /\ passes'[p] # passes[p]
  /\ emitted' = emitted

\* The pass p takes the step that follows its count of the rows of a
\* candidate, and the count is below the ledger's.
CountsBelowLedger(p) ==
  /\ StepOfPass(p)
  /\ passes[p].pc = "count"
  /\ faults' = faults
  /\ VoteCount(votes, passes[p].cand) < passes[p].snap[passes[p].cand]

\* C7: under the report-only policy no step of a pass writes to the store,
\* and a count below the ledger's is printed as a mismatch.
C7_ReportOnlyWritesNothing ==
  [][policy = "report-only" =>
       \A p \in Passes :
         /\ StepOfPass(p) =>
              /\ votes' = votes
              /\ nextVoteId' = nextVoteId
              /\ storeTables' = storeTables
         /\ CountsBelowLedger(p) =>
              MismatchLine(passes[p].cand, passes[p].snap[passes[p].cand],
                           VoteCount(votes, passes[p].cand)) \in log']_vars

\* C7 witness: a report-only pass has returned after printing a mismatch for
\* a candidate with rows in the store, but fewer than the ledger reports.
C7_Witness ==
  /\ policy = "report-only"
  /\ \E p \in Passes : passes[p].pc = "done" /\ passes[p].clean
  /\ \E l \in log : l.kind = "mismatch" /\ 0 < l.db /\ l.db < l.onChain

\* The rows the pass p inserted for the candidate c.
MadeFor(p, c) == {v \in votes : v.id \in passes[p].made /\ v.candidateId = c}

IsEligible(studentId) ==
  \E st \in students : st.id = studentId /\ st.eligible

\* A pass never inserts more rows for a candidate than the number of missing
\* votes it computed, and the rows are for distinct eligible students.
WithinQuota ==
  \A p \in Passes, c \in CandidateIds :
    /\ Cardinality(MadeFor(p, c)) <= passes[p].quota[c]
    /\ Cardinality({v.studentId : v \in MadeFor(p, c)})
         = Cardinality(MadeFor(p, c))
    /\ \A v \in MadeFor(p, c) : IsEligible(v.studentId)

\* An insert of a pass adds one row, for its current candidate and for a
\* student who had no row for that candidate.
InsertsForNewVoter ==
  \A p \in Passes :
    (passes[p].pc = "create" /\ StepOfPass(p) /\ votes' # votes)
    => \E v \in votes' \ votes :
         /\ votes' = votes \cup {v}
         /\ v.candidateId = passes[p].cand
         /\ VotesOf(votes, v.studentId, v.candidateId) = {}
         /\ IsEligible(v.studentId)

\* The number of missing votes a pass works with is the ledger count it read
\* less the rows the store holds for the candidate.
QuotaIsDelta ==
  \A p \in Passes, c \in CandidateIds :
    (StepOfPass(p) /\ passes'[p].quota[c] # passes[p].quota[c])
    => passes'[p].quota[c]
         = passes[p].snap[c]
           - Cardinality({v \in votes : v.candidateId = c})

\* C8: under the synthetic-attribution policy, a pass that counts N rows
\* for a candidate with L > N ledger votes inserts at most L - N rows for
\* it, each for a distinct eligible Student that had no row for it.
C8_SyntheticWithinDelta ==
  [](policy = "synthetic-attribution" => WithinQuota)
  /\ [][policy = "synthetic-attribution" =>
          (QuotaIsDelta /\ InsertsForNewVoter)]_vars

\* C8 witness: a pass has returned after inserting, for some candidate,
\* exactly the missing number of rows although more students were eligible.
C8_Witness ==
  \E p \in Passes, c \in CandidateIds :
    /\ passes[p].pc = "done"
    /\ passes[p].quota[c] > 0
    /\ Cardinality(MadeFor(p, c)) = passes[p].quota[c]
    /\ EligibleStudents(votes, c) # {}

\* C9: no configuration of the source enables or disables the repair, so
\* "unless enabled" is every run: no reconciliation pass inserts a Vote row,
\* and every Vote row of the store was inserted by an invocation of the
\* callback for a vote-cast event.
C9_OnlyIngestionCreatesVotes ==
  /\ \A v \in votes : \E h \in Handlers : v.id \in handlers[h].made
  /\ \A p \in Passes : passes[p].made = {}

\* C10: a Vote row of one state is a row of the next state, unchanged.
C10_VotesAppendOnly == [][votes \subseteq votes']_vars

\* C10 witness: the store holds rows after a call has failed and after an
\* insert has been rejected as a duplicate.
C10_Witness ==
  /\ votes # {}
  /\ faults > 0
  /\ \E h \in Handlers :
       \E pair \in handlers[h].tried :
         \A v \in RowsOfPair(pair) : v.id \notin handlers[h].made

\* The invocation h gets the answer of its Election lookup, and the store
\* has no Election row for the id of the event.
UnknownElection(h) ==
  /\ handlers[h].pc = "findElection"
  /\ handlers'[h] # handlers[h]
  /\ faults' = faults
  /\ ~\E e \in elections : e.id = handlers[h].electionId

\* C11: for an event whose election id has no Election row the callback
\* prints the warning and returns: it inserts no row and asks for no insert,
\* and the step leaves the listeners, the timers, main and the delivery
\* position as they are.
C11_UnknownElectionSkipped ==
  /\ [](\A h \in Handlers :
          (handlers[h].pc # "idle"
             /\ ~\E e \in elections : e.id = handlers[h].electionId)
          => (handlers[h].made = {} /\ handlers[h].tried = {}))
  /\ [][\A h \in Handlers :
          UnknownElection(h) =>
            /\ Line("unknown-election", handlers[h].electionId) \in log'
            /\ handlers'[h].pc = "done"
            /\ votes' = votes
            /\ delivered' = delivered
            /\ lifecycle' = lifecycle
            /\ \A k \in Handlers \ {h} : handlers'[k] = handlers[k]]_vars

\* C11 witness: the first event handed to the callback was for an unknown
\* election; the second was ingested and a listener is at work.
C11_Witness ==
  /\ MaxHandlers >= 2
  /\ handlers[1].pc = "done"
  /\ handlers[1].electionId = "e9"
  /\ Line("unknown-election", "e9") \in log
  /\ handlers[2].pc = "done"
  /\ handlers[2].made # {}
  /\ listeners > 0

\* A provider error has been reported.
ErrorReported == Line("provider-error", NULL) \in log

\* A listener is at work and no reconnect or retry is pending.
Resubscribed ==
  /\ listeners > 0
  /\ timers.reconnect = 0
  /\ timers.setup = 0

\* An event is waiting while a listener is at work.
EventPending == listeners > 0 /\ delivered < Len(emitted)

\* Every event emitted so far has been handed to the callback, or no
\* listener is at work.
EventsHanded == delivered = Len(emitted) \/ listeners = 0

\* C12: listener.js never exits on a provider error; if the endpoint ends
\* up reachable, every reported provider error is followed by a state with
\* a listener at work and no reconnect or retry pending, and every event
\* emitted while a listener is at work is handed to the callback.
C12_ReconnectsAfterTransportError ==
  /\ [](policy = "report-only" => supervisor.pc # "exited")
  /\ (policy = "report-only" /\ <>[]endpoint)
       => /\ ErrorReported ~> Resubscribed
          /\ EventPending ~> EventsHanded

\* C12 witness: after a provider error that ended the only listener, and a
\* reconnect that failed once, a listener is at work again and every event
\* has been handed to the callback, which inserted a row.
C12_Witness ==
  /\ policy = "report-only"
  /\ ErrorReported
  /\ Line("setup-error", NULL) \in log
  /\ Resubscribed
  /\ listeners = 1
  /\ Len(emitted) > 0
  /\ delivered = Len(emitted)
  /\ \E h \in Handlers : handlers[h].pc = "done" /\ handlers[h].made # {}

\* main has finished: a listener is at work, the initial pass has returned
\* and both intervals are set.
Started ==
  /\ listeners > 0
  /\ supervisor.pc = "running"
  /\ supervisor.sync
  /\ supervisor.heartbeat
  /\ passes[supervisor.pass].pc = "done"

\* C13: listener.js never exits when the set-up fails; if the endpoint ends
\* up reachable, a listener is eventually at work, the initial pass returns
\* and the two intervals are set.
C13_InitialSubscriptionRetried ==
  /\ [](policy = "report-only" => supervisor.pc # "exited")
  /\ (policy = "report-only" /\ <>[]endpoint) => <>Started

\* C13 witness: the set-up failed, and start-up has completed; the retry of
\* the set-up and the retry of main have each registered a listener.
C13_Witness ==
  /\ policy = "report-only"
  /\ Line("setup-error", NULL) \in log
  /\ Started
  /\ listeners >= 2
  /\ timers.setup = 0

\* A call of the invocation h fails.
FailsInHandler(h) ==
  /\ handlers[h].pc \notin {"idle", "done"}
  /\ handlers'[h] # handlers[h]
  /\ faults' = faults + 1

\* The lines the catch blocks of the callback and of processVoteEvent print
\* for the event of the invocation h.
ErrorLines(h) ==
  {Line(kind, key) :
     kind \in {"callback-error", "chain-data-error", "position-error"},
     key \in {handlers[h].electionId}
              \cup {handlers[h].positionIds[k] :
                      k \in 1..Len(handlers[h].positionIds)}}

\* C14: a call that fails in an invocation of the callback is caught in it:
\* an error line of the event is printed, and the step leaves the rows, the
\* listeners, the timers, main, the delivery position and the other
\* invocations as they are.
C14_IngestionFailureContained ==
  [][\A h \in Handlers :
       FailsInHandler(h) =>
         /\ log' \cap ErrorLines(h) # {}
         /\ handlers'[h].pc # "idle"
         /\ votes' = votes
         /\ delivered' = delivered
         /\ lifecycle' = lifecycle
         /\ \A k \in Handlers \ {h} : handlers'[k] = handlers[k]]_vars

\* C14 witness: the first invocation, for an event of a known election and
\* a known voter, ended on a failing call before it resolved the voter; the
\* second one inserted a row.
C14_Witness ==
  /\ MaxHandlers >= 2
  /\ faults > 0
  /\ handlers[1].pc = "done"
  /\ handlers[1].electionId = "e1"
  /\ handlers[1].resolved = "?"
  /\ handlers[1].made = {}
  /\ handlers[2].pc = "done"
  /\ handlers[2].made # {}
  /\ listeners > 0

\* C15: an invocation of the callback whose loop over the position ids has
\* begun returns only after the iteration of the last position id has
\* begun, whatever failed or was skipped on the way, and the iterations
\* begin in the order of the position ids.
C15_EveryPositionProcessed ==
  \A h \in Handlers :
    /\ (handlers[h].pc = "done" /\ handlers[h].iter > 0)
         => handlers[h].iter = Len(handlers[h].positionIds)
    /\ handlers[h].pc \in {"findVote", "createVote", "findPosition",
                           "findStudentLower"}
         => handlers[h].iter = handlers[h].i

\* C15 witness: an event with two position ids; the iteration of the first
\* ended in the catch of the loop, and the invocation then inserted a row
\* and returned.
C15_Witness ==
  \E h \in Handlers :
    /\ handlers[h].pc = "done"
    /\ Len(handlers[h].positionIds) = 2
    /\ handlers[h].iter = 2
    /\ Line("position-error", handlers[h].positionIds[1]) \in log
    /\ \E v \in votes : v.id \in handlers[h].made

\* C16: a pass returns only after the iteration of every election its
\* findMany returned has begun, whatever failed in the iterations before.
C16_EveryElectionCompared ==
  \A p \in Passes :
    /\ passes[p].begun \subseteq passes[p].picked
    /\ passes[p].pc = "done" => passes[p].begun = passes[p].picked

\* C16 witness: a pass over two elections has returned; a call failed while
\* it synced the first, and the second was compared all the same.
C16_Witness ==
  \E p \in Passes :
    /\ passes[p].pc = "done"
    /\ ~passes[p].clean
    /\ passes[p].picked = {"e1", "e3"}
    /\ passes[p].begun = {"e1", "e3"}
    /\ Line("election-sync-error", "e1") \in log

\* The invocation h gets the answer of an insert for a pair that has a row.
DuplicateInHandler(h) ==
  /\ handlers[h].pc = "createVote"
  /\ handlers'[h] # handlers[h]
  /\ faults' = faults
  /\ UniqueViolated(votes, handlers[h].student, handlers[h].cand)

\* The pass p gets the answer of an insert for a pair that has a row.
DuplicateInPass(p) ==
  /\ StepOfPass(p)
  /\ passes[p].pc = "create"
  /\ faults' = faults
  /\ UniqueViolated(votes, Head(passes[p].studs), passes[p].cand)

\* C17: an insert that the uniqueness constraint rejects changes no row;
\* the invocation of the callback goes on with a later position id (or
\* returns after the last), and the pass goes on with the next student (or
\* what follows the last).
C17_DuplicateIsNoOp ==
  [][/\ \A h \in Handlers :
          DuplicateInHandler(h) =>
            /\ votes' = votes
            /\ handlers'[h].made = handlers[h].made
            /\ IF handlers'[h].pc = "done"
                 THEN handlers'[h].iter = Len(handlers[h].positionIds)
                 ELSE handlers'[h].i > handlers[h].i
     /\ \A p \in Passes :
          DuplicateInPass(p) =>
            /\ votes' = votes
            /\ passes'[p].made = passes[p].made
            /\ passes'[p].clean = passes[p].clean
            /\ IF Tail(passes[p].studs) # << >>
                 THEN /\ passes'[p].pc = "create"
                      /\ passes'[p].studs = Tail(passes[p].studs)
                 ELSE passes'[p].pc \in {"count", "getElection", "done"}]_vars

\* C17 witness: an invocation whose insert for its first position id was
\* rejected as a duplicate has inserted a row for a later one and returned.
C17_Witness ==
  \E h \in Handlers :
    /\ handlers[h].pc = "done"
    /\ \E pair \in handlers[h].tried :
         \A v \in RowsOfPair(pair) : v.id \notin handlers[h].made
    /\ \E v \in votes : v.id \in handlers[h].made

\* The invocation h returns with no Student for its voter.
DropsEvent(h) ==
  /\ handlers[h].pc # "done"
  /\ handlers'[h].pc = "done"
  /\ handlers'[h].resolved = NULL

\* C18: an invocation whose voter address belongs to no Student inserts no
\* row and asks for no insert, and when it returns nothing is queued: no
\* other invocation starts and the delivery position stays.
C18_UnknownVoterDropped ==
  /\ [](\A h \in Handlers :
          (handlers[h].resolved = NULL \/ (handlers[h].pc # "idle"
                                           /\ Owners(handlers[h].voter) = {}))
          => (handlers[h].made = {} /\ handlers[h].tried = {}))
  /\ [][\A h \in Handlers :
          DropsEvent(h) =>
            /\ votes' = votes
            /\ emitted' = emitted
            /\ delivered' = delivered
            /\ \A k \in Handlers \ {h} : handlers'[k] = handlers[k]]_vars

\* C18 witness: an event with two position ids from an address no Student
\* owns has been handled and dropped.
C18_Witness ==
  \E h \in Handlers :
    /\ handlers[h].pc = "done"
    /\ handlers[h].resolved = NULL
    /\ Owners(handlers[h].voter) = {}
    /\ Len(handlers[h].positionIds) = 2
    /\ Line("no-student", handlers[h].electionId) \in log

\* C19: a row inserted for an event whose payload names the candidates
\* voted for is a row for one of these candidates.
C19_CarriedCandidateIsUsed ==
  \A h \in Handlers :
    handlers[h].event # {} =>
      \A v \in votes :
        v.id \in handlers[h].made => v.candidateId \in handlers[h].event

\* C20: before main has a contract there is no pass and no interval; while
\* main awaits its initial pass there is that one pass, a listener, and no
\* interval; the intervals are set when the initial pass has returned, and
\* a heartbeat is printed only then.
C20_StartupOrder ==
  /\ supervisor.pc \in {"start", "retry", "exited"}
       => (passes = << >> /\ ~supervisor.sync /\ ~supervisor.heartbeat)
  /\ supervisor.pc = "sync"
       => /\ Len(passes) = 1
          /\ supervisor.pass = 1
          /\ ~supervisor.sync
          /\ ~supervisor.heartbeat
  /\ supervisor.pc = "running"
       => /\ passes[supervisor.pass].pc = "done"
          /\ supervisor.sync
          /\ supervisor.heartbeat = (policy = "report-only")
  /\ passes # << >> => listeners >= 1
  /\ Line("heartbeat", NULL) \in log => supervisor.pc = "running"

\* C20 witness: after a failed set-up, main has set its intervals, a
\* heartbeat was printed and the interval has started a second pass.
C20_Witness ==
  /\ policy = "report-only"
  /\ Line("setup-error", NULL) \in log
  /\ supervisor.pc = "running"
  /\ Len(passes) = 2
  /\ passes[1].pc = "done"
  /\ Line("heartbeat", NULL) \in log

\* main returns without a contract.
StartupFails ==
  /\ supervisor.pc \in {"start", "retry"}
  /\ supervisor' # supervisor
  /\ listeners' = listeners

\* A fault that no try block catches is reported.
UncaughtFault ==
  /\ faults' = faults + 1
  /\ handlers' = handlers
  /\ passes' = passes

\* C21: in listener.js the process ends only where the SIGINT callback
\* calls process.exit; a main that gets no contract leaves a retry of main
\* and a retry of the set-up pending; a fault that nothing catches is
\* printed and leaves the listeners, the timers and the intervals of main
\* as they are.
C21_ExitOnlyOnSignal ==
  [][policy = "report-only" =>
       /\ (Exited' /\ ~Exited)
            => (shutdown = "disconnecting" /\ shutdown' = "exited")
       /\ StartupFails
            => /\ supervisor'.pc = "retry"
               /\ timers'.setup = timers.setup + 1
               /\ ~Exited'
       /\ UncaughtFault
            => /\ Line("uncaught", NULL) \in log'
               /\ listeners' = listeners
               /\ timers' = timers
               /\ supervisor' = supervisor
               /\ ~Exited']_vars

\* C21 witness: the set-up failed and was retried, a fault that nothing
\* caught was printed while the intervals were set, the service went on to
\* ingest an event, and it ended on SIGINT.
C21_Witness ==
  /\ policy = "report-only"
  /\ Line("setup-error", NULL) \in log
  /\ Line("uncaught", NULL) \in log
  /\ supervisor.pc = "running"
  /\ supervisor.sync
  /\ listeners > 0
  /\ \E h \in Handlers : handlers[h].pc = "done" /\ handlers[h].made # {}
  /\ shutdown = "exited"

\* C22: from the start of the SIGINT callback on, no listener is
\* registered and no invocation of the Voted callback starts.
C22_NoCallbackAfterSigint ==
  [][shutdown # "running" =>
       /\ listeners = 0
       /\ \A h \in Handlers :
            handlers[h].pc = "idle" => handlers'[h].pc = "idle"]_vars

\* C23: invocations of the Voted callback start in the order of delivery
\* (the invocation h1 before h2 when h1 < h2); for two different events, the
\* store executes an insert of the later invocation only when the earlier
\* one has returned.
C23_DeliveryOrder ==
  \A h1 \in Handlers, h2 \in Handlers :
    (h1 < h2 /\ ~SameEvent(h1, h2) /\ handlers[h2].tried # {})
      => handlers[h1].pc = "done"

\* The invocations of the Voted callback that have started.
Ingestions == {h \in Handlers : handlers[h].pc # "idle"}

\* C24: at most one listener is registered, and the Voted callback has
\* started at most once per event emitted.
C24_OneListener ==
  /\ listeners <= 1
  /\ Cardinality(Ingestions) <= Len(emitted)

\* C25: an insert of a reconciliation pass never takes the number of Vote
\* rows of its candidate above the voteCount the ledger has for the
\* candidate, whatever the callback inserts while the pass is under way.
C25_PassNeverOvershoots ==
  [][\A p \in Passes :
       (StepOfPass(p) /\ passes[p].pc = "create" /\ votes' # votes)
         => VoteCount(votes', passes[p].cand) <= chain[passes[p].cand]]_vars

\* The passes that have not returned.
Running == {p \in Passes : passes[p].pc # "done"}

\* C26: at most one call of syncVoteCounts is under way.
C26_OnePassAtATime == Cardinality(Running) <= 1

====
